---------------------------- MODULE Spec2Model ----------------------------
(***************************************************************************)
(* A model of browserless-compose: the Orbita launcher                     *)
(* (orbita/scripts/orbita-launcher.js) and the browserless gateway         *)
(* (orbita/scripts/browserless-orbita-wrapper.js).                         *)
(*                                                                         *)
(* Text is modelled as a sequence of tokens: "--lang=en-US" is             *)
(* <<"--lang", "=", "en-US">>.  split, startsWith, includes and template   *)
(* concatenation work on the tokens as the JavaScript methods work on the  *)
(* characters.  A missing (undefined) text field and the empty text are    *)
(* both <<>>: JavaScript treats both as falsy, and every test the code     *)
(* makes on such a field is a truthiness test or an === against a          *)
(* non-empty text.  A missing number is 0, falsy as well.                  *)
(***************************************************************************)
EXTENDS Integers, Sequences, FiniteSets, TLC

(***************************************************************************)
(* Bounds of the model.                                                    *)
(***************************************************************************)
\* longest caller-supplied argument list the builder is applied to
MaxCallerArgs == 2
\* profile directories present before a launch
MaxOldProfiles == 2
\* termination signals delivered to one process
MaxSignals == 1
\* requests that reach the gateway's routes
MaxRequests == 2
\* backend processes the gateway starts
MaxStarts == 2
\* hours of wall-clock time over which the fleet of launchers is followed
MaxHours == 3
\* ticks of the gateway's clock
MaxTicks == 2

(***************************************************************************)
(* Text helpers: String.prototype.split / startsWith / includes.           *)
(***************************************************************************)
RECURSIVE Split(_, _)
Split(s, sep) ==
    IF \A i \in 1..Len(s) : s[i] # sep
    THEN <<s>>
    ELSE LET i == CHOOSE k \in 1..Len(s) :
                      s[k] = sep /\ \A j \in 1..(k - 1) : s[j] # sep
         IN  <<SubSeq(s, 1, i - 1)>> \o Split(SubSeq(s, i + 1, Len(s)), sep)

StartsWith(a, k) == Len(k) <= Len(a) /\ SubSeq(a, 1, Len(k)) = k

Includes(s, tok) == \E i \in 1..Len(s) : s[i] = tok

\* ${x} of a destructured array element that may be missing
Undefined == <<"undefined">>

ElemOrUndefined(parts, i) == IF i <= Len(parts) THEN parts[i] ELSE Undefined

\* ${n} of the numbers the builder can produce
NumText(n) ==
    CASE n = 4096 -> <<"4096">>
      [] n = 8192 -> <<"8192">>
      [] OTHER    -> <<"NaN">>

\* null / undefined where the code tests a path for truthiness
NoPath == <<>>

(***************************************************************************)
(* OrbitaLauncher.buildOrbitaArgs                                          *)
(***************************************************************************)
essentialArgs ==
    << <<"--no-sandbox">>,
       <<"--disable-dev-shm-usage">>,
       <<"--disable-features", "=", "TranslateUI">>,
       <<"--disable-ipc-flooding-protection">>,
       <<"--enable-features", "=", "NetworkService,NetworkServiceLogging">>,
       <<"--disable-background-networking">>,
       <<"--remote-debugging-port", "=", "0">>,
       <<"--allow-pre-commit-input">>,
       <<"--disable-background-timer-throttling">>,
       <<"--disable-backgrounding-occluded-windows">>,
       <<"--disable-renderer-backgrounding">> >>

\* arg.split("=")[0]
ArgKey(arg) == Split(arg, "=")[1]

\* a plausible slip: an exact-match test instead of the prefix test
AlreadyPresentExact(args, arg) == \E i \in 1..Len(args) : args[i] = arg

\* args.some((a) => a.startsWith(argKey))
AlreadyPresent(args, arg) ==
    \E i \in 1..Len(args) : StartsWith(args[i], ArgKey(arg))

\* essentialArgs.forEach(...) from index i on, over the accumulating list
RECURSIVE AddEssential(_, _)
AddEssential(args, i) ==
    IF i > Len(essentialArgs) THEN args
    ELSE AddEssential(IF AlreadyPresent(args, essentialArgs[i])
                      THEN args
                      ELSE Append(args, essentialArgs[i]), i + 1)

UserDataDirArgs(path) ==
    IF path # NoPath
    THEN << <<"--user-data-dir", "=">> \o path >>
    ELSE <<>>

UserAgentArgs(nav) ==
    IF nav.userAgent # <<>>
    THEN << <<"--user-agent", "=">> \o nav.userAgent >>
    ELSE <<>>

\* a plausible slip: height before width
WindowSizeArgsSwapped(nav) ==
    IF nav.resolution # <<>>
    THEN LET parts == Split(nav.resolution, "x")
             width == ElemOrUndefined(parts, 1)
             height == ElemOrUndefined(parts, 2)
         IN  << <<"--window-size", "=">> \o height \o <<",">> \o width >>
    ELSE <<>>

WindowSizeArgs(nav) ==
    IF nav.resolution # <<>>
    THEN LET parts == Split(nav.resolution, "x")
             width == ElemOrUndefined(parts, 1)
             height == ElemOrUndefined(parts, 2)
         IN  << <<"--window-size", "=">> \o width \o <<",">> \o height >>
    ELSE <<>>

\* a plausible slip: the whole list as the primary language
LanguageArgsWhole(nav) ==
    IF nav.language # <<>>
    THEN << <<"--lang", "=">> \o nav.language,
            <<"--accept-lang", "=">> \o nav.language >>
    ELSE <<>>

LanguageArgs(nav) ==
    IF nav.language # <<>>
    THEN LET primaryLang == Split(nav.language, ",")[1]
         IN  << <<"--lang", "=">> \o primaryLang,
                <<"--accept-lang", "=">> \o nav.language >>
    ELSE <<>>

PlatformArgs(nav) ==
    IF nav.platform # <<>> /\ Includes(nav.platform, "Mac")
    THEN << <<"--enable-font-subpixel-positioning">> >>
    ELSE <<>>

MemoryArgs(nav) ==
    IF nav.hardwareConcurrency # 0
    THEN << <<"--max-old-space-size", "=">>
            \o NumText((IF nav.deviceMemory # 0 THEN nav.deviceMemory ELSE 8) * 1024) >>
    ELSE <<>>

\* a plausible slip: any canvas mode at all switches the flags on
CanvasArgsAnyMode(fp) ==
    IF fp.canvasMode # <<>>
    THEN << <<"--disable-canvas-aa">>, <<"--disable-2d-canvas-clip-aa">> >>
    ELSE <<>>

CanvasArgs(fp) ==
    IF fp.canvasMode = <<"off">>
    THEN << <<"--disable-canvas-aa">>, <<"--disable-2d-canvas-clip-aa">> >>
    ELSE <<>>

WebGLArgs(fp) ==
    IF fp.webGLMode = <<"off">>
    THEN << <<"--disable-webgl">>, <<"--disable-webgl", "2">> >>
    ELSE <<>>

\* a plausible slip: the WebGL block moved in front of the canvas block
DerivedArgsWebGLFirst(fp, path) ==
    UserDataDirArgs(path) \o UserAgentArgs(fp.navigator)
        \o WindowSizeArgs(fp.navigator) \o LanguageArgs(fp.navigator)
        \o PlatformArgs(fp.navigator) \o MemoryArgs(fp.navigator)
        \o WebGLArgs(fp) \o CanvasArgs(fp)

\* the fingerprint-derived flags, in the order the builder pushes them
DerivedArgs(fp, path) ==
    UserDataDirArgs(path) \o UserAgentArgs(fp.navigator)
        \o WindowSizeArgs(fp.navigator) \o LanguageArgs(fp.navigator)
        \o PlatformArgs(fp.navigator) \o MemoryArgs(fp.navigator)
        \o CanvasArgs(fp) \o WebGLArgs(fp)

\* const args = [...originalArgs], the pushes, the merge of essentialArgs
buildOrbitaArgs(fp, path, callerArgs) ==
    AddEssential(callerArgs \o DerivedArgs(fp, path), 1)

(***************************************************************************)
(* State.  The launcher's variables keep the names of launch()'s locals,   *)
(* the gateway's the names of the wrapper's fields; the builder's inputs   *)
(* and result stand alone for the claims about the pure function.          *)
(***************************************************************************)
VARIABLES
    \* ---- launcher (orbita-launcher.js)
    pc,             \* where the launcher stands
    token,          \* process.env.GOLOGIN_TOKEN as the launcher reads it
    originalArgs,   \* process.argv.slice(2)
    rootExists,     \* whether /tmp/orbita-profiles exists
    disk,           \* profile directory name -> last-modified time
    diskAtStart,    \* the directories the launcher found when it started
    sweepError,     \* the error cleanupOldProfiles met: "none", "readdir"
                    \* (the listing failed), "entry" (stat or rmdir failed)
    attempt,        \* the loop variable of fetchGologinFingerprint
    apiCalls,       \* axios.get calls made by the launcher
    attemptLog,     \* what each call came to, in order
    delays,         \* the setTimeout delays the fetch has waited, in order
    lastError,      \* lastError of fetchGologinFingerprint
    fetchError,     \* the error fetchGologinFingerprint threw, if any
    fingerprint,    \* the descriptor launch() holds
    setupFail,      \* the step of setupProfileDirectory that failed (0: none)
    profilePath,    \* the handle setupProfileDirectory returned
    prefs,          \* intl.accept_languages of the written Preferences
    orbitaArgs,     \* the built argument list
    orbitaProcess,  \* the child: "none", "running", "failed", "closed"
    kills,          \* orbitaProcess.kill calls: [sig, alive]
    signals,        \* termination signals the launcher has received
    closeCode,      \* the code the close event carried
    rmdirResult,    \* the close handler's rmdir: "none", "ok", "failed"
    exited,         \* "no", "exit" (process.exit), "signal" (default action)
    exitStatus,     \* the launcher's exit status once exited = "exit"
    \* ---- gateway (browserless-orbita-wrapper.js)
    gwToken,            \* process.env.GOLOGIN_TOKEN as the gateway reads it
    procs,              \* the backend processes started so far, in order
    browserlessProcess, \* this.browserlessProcess: an index into procs
    restarts,           \* the restart timers set so far: [by, due, fired]
    clock,              \* milliseconds since the gateway was constructed
    activeFingerprints, \* this.activeFingerprints: profile_id -> fingerprint
    requests,           \* the requests that reached fingerprintMiddleware
    endpointCalls,      \* the requests that reached the /gologin and
                        \* /health routes
    launchScripts,      \* writes of /tmp/orbita-launch.sh
    listening,          \* whether app.listen has been called
    usedUuids,          \* the values uuidv4() has returned
    gwApiCalls,         \* axios.get calls made by the gateway
    gwSignals,          \* termination signals the gateway has received
    gwKills,            \* this.browserlessProcess.kill calls: [sig, alive]
    gwExited,           \* whether the gateway has called process.exit
    gwExitStatus,       \* the status it passed
    \* ---- the argument builder applied to arbitrary inputs
    bFingerprint,   \* the descriptor given to buildOrbitaArgs
    bProfilePath,   \* the profile handle given
    bOriginalArgs,  \* the caller's argument list given
    bResult,        \* what it returned
    bDone,          \* whether it has been applied
    \* ---- several launcher processes on one profile root
    fleet,          \* launcher -> [pc, sessionId, profilePath, child]
    fleetDisk,      \* profile directory name -> last-modified time
    fleetClock      \* Date.now(), in milliseconds

fetchVars == <<attempt, apiCalls, attemptLog, delays, lastError, fetchError,
               fingerprint>>

fsVars == <<rootExists, disk, sweepError, setupFail, profilePath, prefs>>

childVars == <<orbitaArgs, orbitaProcess, kills, closeCode, rmdirResult>>

exitVars == <<exited, exitStatus>>

lvars == <<pc, token, originalArgs, diskAtStart, signals, fetchVars, fsVars, childVars, exitVars>>

gvars == <<gwToken, procs, browserlessProcess, launchScripts, listening,
           restarts, clock, activeFingerprints, requests, endpointCalls,
           usedUuids, gwApiCalls, gwSignals, gwKills, gwExited,
           gwExitStatus>>

bvars == <<bFingerprint, bProfilePath, bOriginalArgs, bResult, bDone>>

fvars == <<fleet, fleetDisk, fleetClock>>

vars == <<lvars, gvars, bvars, fvars>>

(***************************************************************************)
(* Inputs.                                                                 *)
(***************************************************************************)
\* Date.now() at the sweep, in milliseconds
Now == 100000000

\* 2 * 60 * 60 * 1000
MaxAgeMs == 2 * 60 * 60 * 1000

\* uuidv4(): the first 8 characters, then the rest
Uuids == { <<"0a1b2c3d", "-x">>, <<"0a1b2c3d", "-y">>, <<"4e5f6a7b", "-x">> }

\* the values uuidv4() takes in a launcher run, which draws one
LauncherUuids == { <<"0a1b2c3d", "-x">>, <<"4e5f6a7b", "-x">> }

\* path.join(this.profileDir, sessionId)
ProfilePathOf(sessionId) == <<"/tmp/orbita-profiles", "/">> \o sessionId

\* last-modified times around the cutoff
OldMtimes == { Now - MaxAgeMs - 1, Now - MaxAgeMs, Now - MaxAgeMs + 1 }

\* the profile root before a launch: directories old1..oldk
InitialDisks ==
    UNION { [ { <<"old", ToString(i)>> : i \in 1..k } -> OldMtimes ]
            : k \in 0..MaxOldProfiles }

\* bodies of the remote API (spec section 6), before a session identifier
\* is attached; a descriptor without a navigator object behaves as one whose
\* navigator fields are all missing (every read is navigator?.field)
MacDescriptor ==
    [ navigator |-> [ userAgent |-> <<"Mozilla/5.0">>,
                      resolution |-> <<"1920", "x", "1080">>,
                      language |-> <<"en-US", ",", "en">>,
                      platform |-> <<"Mac", "Intel">>,
                      hardwareConcurrency |-> 8,
                      deviceMemory |-> 4 ],
      canvasMode |-> <<"off">>,
      webGLMode |-> <<"off">> ]

BareDescriptor ==
    [ navigator |-> [ userAgent |-> <<>>, resolution |-> <<>>,
                      language |-> <<>>, platform |-> <<>>,
                      hardwareConcurrency |-> 0, deviceMemory |-> 0 ],
      canvasMode |-> <<>>,
      webGLMode |-> <<>> ]

ApiDescriptors == { MacDescriptor, BareDescriptor }

\* what one axios.get can come to: a rejection (network error, timeout,
\* error status), a response whose body is falsy, a response with a
\* descriptor
ApiOutcomes ==
    { [kind |-> "reject", data |-> BareDescriptor],
      [kind |-> "empty", data |-> BareDescriptor] }
        \cup { [kind |-> "data", data |-> d] : d \in ApiDescriptors }

\* error.message of a failed attempt: axios's, or the launcher's own
ErrorOf(kind) ==
    IF kind = "reject" THEN "Network Error"
    ELSE "Invalid response from GoLogin API"

NoFingerprint == [ none |-> TRUE ]

NoError == [ attempts |-> 0, last |-> "none" ]

\* response.data.sessionId = uuidv4()
AttachSessionId(data, u) ==
    [ f \in DOMAIN data \cup {"sessionId"} |->
        IF f = "sessionId" THEN u ELSE data[f] ]

LauncherArgLists ==
    { << <<"--remote-debugging-port", "=", "9222">> >>,
      << <<"--user-data-dir", "=", "/tmp/caller">>, <<"about:blank">> >> }

\* process.env.GOLOGIN_TOKEN: unset or empty, or a token
Tokens == { <<>>, <<"secret">> }

\* a plausible slip: the test for the token left out
TokenMissingNever(t) == FALSE

\* if (!this.gologinConfig.token)
TokenMissing(t) == t = <<>>

\* the code of a close event whose child a signal ended (null)
NullCode == -1

\* the code of the close event that follows a failed spawn (a negative errno)
SpawnFailCode == -2

CloseCodes == { 0, 1, 2, NullCode }

Signals == { "SIGTERM", "SIGINT" }

\* a plausible slip: every failure reported as status 1
ExitStatusOfFlat(code) == IF code = 0 THEN 0 ELSE 1

\* process.exit(code): null leaves the default status 0
ExitStatusOf(code) == IF code = NullCode THEN 0 ELSE code

\* process.exit(status) in the launcher
Exit(status) ==
    /\ exited' = "exit"
    /\ exitStatus' = status

(***************************************************************************)
(* OrbitaLauncher.launch, step by step.                                    *)
(***************************************************************************)
LInit ==
    /\ pc = "constructor"
    /\ token \in Tokens
    /\ originalArgs \in LauncherArgLists
    /\ rootExists \in BOOLEAN
    /\ disk \in InitialDisks
    /\ (~rootExists => disk = <<>>)
    /\ diskAtStart = disk
    /\ sweepError = "none"
    /\ attempt = 1
    /\ apiCalls = 0
    /\ attemptLog = <<>>
    /\ delays = <<>>
    /\ lastError = "none"
    /\ fetchError = NoError
    /\ fingerprint = NoFingerprint
    /\ setupFail = 0
    /\ profilePath = NoPath
    /\ prefs = <<>>
    /\ orbitaArgs = <<>>
    /\ orbitaProcess = "none"
    /\ kills = <<>>
    /\ signals = <<>>
    /\ closeCode = NullCode
    /\ rmdirResult = "none"
    /\ exited = "no"
    /\ exitStatus = 0

\* the launcher before it is started, for the specifications of the others
LIdle ==
    /\ LInit
    /\ token = <<"secret">>
    /\ originalArgs = << <<"--remote-debugging-port", "=", "9222">> >>
    /\ rootExists = FALSE

\* new OrbitaLauncher(): without a token the constructor throws, nothing
\* catches it, and the process ends with status 1 before launch() is called
Construct ==
    /\ exited = "no" /\ pc = "constructor"
    /\ IF TokenMissing(token)
       THEN /\ pc' = "configError"
            /\ exited' = "uncaught"
            /\ exitStatus' = 1
       ELSE /\ pc' = "ensureProfileDir"
            /\ UNCHANGED exitVars
    /\ UNCHANGED <<token, originalArgs, diskAtStart>>
    /\ UNCHANGED <<signals, fetchVars,
                   fsVars, childVars>>
    /\ UNCHANGED <<gvars, bvars, fvars>>

\* ensureProfileDir: mkdir -p of the root; a failure is logged only
EnsureProfileDir ==
    /\ exited = "no" /\ pc = "ensureProfileDir"
    /\ \E ok \in BOOLEAN : rootExists' = (rootExists \/ ok)
    /\ pc' = "cleanupOldProfiles"
    /\ UNCHANGED <<token, originalArgs, diskAtStart>>
    /\ UNCHANGED <<signals, fetchVars, disk, sweepError,
                   setupFail, profilePath, prefs, childVars, exitVars>>
    /\ UNCHANGED <<gvars, bvars, fvars>>

\* the orders readdir can list a set of directories in
Orders(S) ==
    { o \in [1..Cardinality(S) -> S] :
        \A i, j \in 1..Cardinality(S) : o[i] = o[j] => i = j }

\* Date.now() - 2 * 60 * 60 * 1000
cutoffTime == Now - MaxAgeMs

\* a plausible slip: the age test the wrong way round
SweptDiskInverted(d, order, done) ==
    LET removed == { order[i] : i \in { k \in 1..done : d[order[k]] > cutoffTime } }
    IN  [ n \in (DOMAIN d) \ removed |-> d[n] ]

\* the directory map after the loop has handled order[1..done]
SweptDisk(d, order, done) ==
    LET removed == { order[i] : i \in { k \in 1..done : d[order[k]] < cutoffTime } }
    IN  [ n \in (DOMAIN d) \ removed |-> d[n] ]

\* cleanupOldProfiles: failAt = 0 is a failing readdir, failAt = i a failing
\* stat or rmdir of the i-th entry, failAt past the last entry no failure;
\* the one try block around the loop ends the sweep at the first error
CleanupOldProfiles ==
    /\ exited = "no" /\ pc = "cleanupOldProfiles"
    /\ \E order \in Orders(DOMAIN disk) :
         \E failAt \in 0..(Len(order) + 1) :
            /\ (~rootExists => failAt = 0)
            /\ disk' = IF failAt = 0 THEN disk
                       ELSE SweptDisk(disk, order, failAt - 1)
            /\ sweepError' = IF failAt = 0 THEN "readdir"
                              ELSE IF failAt <= Len(order) THEN "entry"
                              ELSE "none"
    /\ pc' = "fetch"
    /\ UNCHANGED <<token, originalArgs, diskAtStart>>
    /\ UNCHANGED <<signals, fetchVars,
                   rootExists, setupFail, profilePath, prefs, childVars,
                   exitVars>>
    /\ UNCHANGED <<gvars, bvars, fvars>>

(***************************************************************************)
(* OrbitaLauncher.fetchGologinFingerprint                                  *)
(***************************************************************************)
maxRetries == 2

\* a plausible slip: the loop bound without its + 1
LoopContinuesShort(a) == a <= maxRetries

\* attempt <= maxRetries + 1
LoopContinues(a) == a <= maxRetries + 1

\* if (attempt <= maxRetries)
RetryAllowed(a) == a <= maxRetries

\* a plausible slip: a constant delay
RetryDelayConstant(a) == 1000

\* const delay = attempt * 1000
RetryDelay(a) == a * 1000

\* a plausible slip: fall back to a default descriptor instead of throwing
ThrowFetchFailedFallBack ==
    /\ fetchError' = [ attempts |-> maxRetries + 1, last |-> lastError' ]
    /\ fingerprint' = AttachSessionId(BareDescriptor, CHOOSE u \in LauncherUuids : TRUE)
    /\ pc' = "setupProfileDirectory"
    /\ UNCHANGED exitVars

\* the throw after the loop, caught by launch(): process.exit(1)
ThrowFetchFailed ==
    /\ fetchError' = [ attempts |-> maxRetries + 1, last |-> lastError' ]
    /\ pc' = "failed"
    /\ Exit(1)
    /\ UNCHANGED fingerprint

\* for (...; attempt++): the next pass, or the end of the loop and the throw
LoopStep ==
    /\ attempt' = attempt + 1
    /\ IF LoopContinues(attempt + 1)
       THEN /\ pc' = "fetch"
            /\ UNCHANGED <<fetchError, fingerprint, exitVars>>
       ELSE ThrowFetchFailed

\* one pass of the loop body: the request, then the return, or the catch
\* block up to its await
FetchAttempt ==
    /\ exited = "no" /\ pc = "fetch"
    /\ apiCalls' = apiCalls + 1
    /\ \E outcome \in ApiOutcomes :
         /\ attemptLog' = Append(attemptLog, outcome)
         /\ IF outcome.kind = "data"
            THEN /\ \E u \in LauncherUuids :
                      fingerprint' = AttachSessionId(outcome.data, u)
                 /\ pc' = "setupProfileDirectory"
                 /\ UNCHANGED <<attempt, delays, lastError, fetchError, exitVars>>
            ELSE /\ lastError' = ErrorOf(outcome.kind)
                 /\ IF RetryAllowed(attempt)
                    THEN /\ delays' = Append(delays, RetryDelay(attempt))
                         /\ pc' = "retryDelay"
                         /\ UNCHANGED <<attempt, fetchError, fingerprint,
                                        exitVars>>
                    ELSE /\ LoopStep
                         /\ UNCHANGED delays
    /\ UNCHANGED <<token, originalArgs, diskAtStart>>
    /\ UNCHANGED <<signals, fsVars, childVars>>
    /\ UNCHANGED <<gvars, bvars, fvars>>

\* the retry timer fires and the loop goes on
RetryDelayElapsed ==
    /\ exited = "no" /\ pc = "retryDelay"
    /\ UNCHANGED lastError
    /\ LoopStep
    /\ UNCHANGED <<token, originalArgs, diskAtStart>>
    /\ UNCHANGED <<signals, apiCalls, attemptLog, delays,
                   fsVars, childVars>>
    /\ UNCHANGED <<gvars, bvars, fvars>>

(***************************************************************************)
(* OrbitaLauncher.setupProfileDirectory                                    *)
(***************************************************************************)
\* fingerprint.navigator?.language || "en-US,en"
AcceptLanguages(fp) ==
    IF fp.navigator.language # <<>> THEN fp.navigator.language
    ELSE <<"en-US", ",", "en">>

\* a plausible slip: the catch block returns the path it was building
SetupResultKeepPath(failStep, path) == path

\* return profilePath, or null from the catch block
SetupResult(failStep, path) == IF failStep = 0 THEN path ELSE NoPath

\* failStep: 0 nothing fails, 1 mkdir of the session directory, 2 mkdir of
\* Default, 3 writeFile of Preferences
SetupProfileDirectory ==
    /\ exited = "no" /\ pc = "setupProfileDirectory"
    /\ \E failStep \in 0..3 :
         /\ setupFail' = failStep
         /\ profilePath' = SetupResult(failStep, ProfilePathOf(fingerprint.sessionId))
         /\ IF failStep = 1
            THEN UNCHANGED <<disk, rootExists>>
            ELSE /\ disk' = [ n \in DOMAIN disk \cup {fingerprint.sessionId} |->
                                IF n = fingerprint.sessionId THEN Now ELSE disk[n] ]
                 /\ rootExists' = TRUE
         /\ prefs' = IF failStep = 0 THEN AcceptLanguages(fingerprint) ELSE prefs
    /\ pc' = "spawn"
    /\ UNCHANGED <<token, originalArgs, diskAtStart>>
    /\ UNCHANGED <<signals, fetchVars, sweepError, childVars,
                   exitVars>>
    /\ UNCHANGED <<gvars, bvars, fvars>>

(***************************************************************************)
(* OrbitaLauncher.launch: spawn, the child's events, the signal handlers   *)
(***************************************************************************)
\* buildOrbitaArgs and spawn, then the handlers are registered; a spawn that
\* fails leaves a child that never ran and has an error event to deliver
Spawn ==
    /\ exited = "no" /\ pc = "spawn"
    /\ orbitaArgs' = buildOrbitaArgs(fingerprint, profilePath, originalArgs)
    /\ \E started \in BOOLEAN :
         orbitaProcess' = IF started THEN "running" ELSE "failed"
    /\ pc' = "running"
    /\ UNCHANGED <<token, originalArgs, diskAtStart>>
    /\ UNCHANGED <<signals, fetchVars, fsVars, kills, closeCode,
                   rmdirResult, exitVars>>
    /\ UNCHANGED <<gvars, bvars, fvars>>

\* orbitaProcess.on("error"): process.exit(1)
OnError ==
    /\ exited = "no" /\ pc = "running" /\ orbitaProcess = "failed"
    /\ Exit(1)
    /\ UNCHANGED <<token, originalArgs, diskAtStart>>
    /\ UNCHANGED <<pc, signals, fetchVars, fsVars, childVars>>
    /\ UNCHANGED <<gvars, bvars, fvars>>

\* if (profilePath && fingerprint)
ReclaimWanted(path, fp) == path # NoPath /\ fp # NoFingerprint

\* orbitaProcess.on("close"), up to its await: the child has ended with
\* `code`; without a handle the handler goes straight to process.exit(code)
OnClose ==
    /\ exited = "no" /\ pc = "running" /\ orbitaProcess = "running"
    /\ \E code \in CloseCodes :
         /\ closeCode' = code
         /\ IF ReclaimWanted(profilePath, fingerprint)
            THEN /\ pc' = "closeHandler"
                 /\ UNCHANGED exitVars
            ELSE /\ pc' = "done"
                 /\ Exit(ExitStatusOf(code))
    /\ orbitaProcess' = "closed"
    /\ UNCHANGED <<token, originalArgs, diskAtStart>>
    /\ UNCHANGED <<signals, fetchVars, fsVars, orbitaArgs,
                   kills, rmdirResult>>
    /\ UNCHANGED <<gvars, bvars, fvars>>

\* the close handler after its await: the rmdir has succeeded or failed (a
\* failure is logged), then process.exit(code)
CloseHandlerResume ==
    /\ exited = "no" /\ pc = "closeHandler"
    /\ \E removed \in BOOLEAN :
         /\ rmdirResult' = IF removed THEN "ok" ELSE "failed"
         /\ disk' = IF removed
                    THEN [ n \in (DOMAIN disk) \ {fingerprint.sessionId} |-> disk[n] ]
                    ELSE disk
    /\ pc' = "done"
    /\ Exit(ExitStatusOf(closeCode))
    /\ UNCHANGED <<token, originalArgs, diskAtStart>>
    /\ UNCHANGED <<signals, fetchVars, rootExists, sweepError,
                   setupFail, profilePath, prefs, orbitaArgs, orbitaProcess,
                   kills, closeCode>>
    /\ UNCHANGED <<gvars, bvars, fvars>>

\* a plausible slip: always SIGTERM, as the gateway's shutdown sends
KillSignalTerm(signal) == "SIGTERM"

\* orbitaProcess.kill(signal)
KillSignal(signal) == signal

\* SIGTERM or SIGINT reaches the launcher.  Once launch() has registered its
\* handlers, shutdown relays the signal to the child and returns; before
\* that the signal has its default action and ends the launcher, which has
\* no child yet
Signal ==
    /\ exited = "no" /\ Len(signals) < MaxSignals
    /\ \E sig \in Signals :
         /\ signals' = Append(signals,
                [ sig |-> sig, alive |-> orbitaProcess = "running" ])
         /\ IF pc \in {"running", "closeHandler"}
            THEN /\ kills' = Append(kills,
                       [ sig |-> KillSignal(sig),
                         alive |-> orbitaProcess = "running" ])
                 /\ UNCHANGED exited
            ELSE /\ exited' = "signal"
                 /\ UNCHANGED kills
    /\ UNCHANGED <<token, originalArgs, diskAtStart>>
    /\ UNCHANGED <<pc, fetchVars, fsVars, orbitaArgs,
                   orbitaProcess, closeCode, rmdirResult, exitStatus>>
    /\ UNCHANGED <<gvars, bvars, fvars>>

LNext ==
    \/ Construct
    \/ EnsureProfileDir
    \/ CleanupOldProfiles
    \/ FetchAttempt
    \/ RetryDelayElapsed
    \/ SetupProfileDirectory
    \/ Spawn
    \/ OnError
    \/ OnClose
    \/ CloseHandlerResume
    \/ Signal

(***************************************************************************)
(* Several launcher processes on the shared profile root.  Each process    *)
(* runs launch() once, as in the launcher's own specification; here the    *)
(* fetch with its retries is one step, the close handler with its rmdir is *)
(* one step, and wall-clock time passes between the steps.                 *)
(***************************************************************************)
Launchers == { "A", "B" }

HourMs == 60 * 60 * 1000

\* a launcher process that has not been started
NotStarted ==
    [ pc |-> "idle", sessionId |-> <<>>, profilePath |-> NoPath,
      child |-> "none" ]

\* no launcher of the fleet has been started
FIdle ==
    /\ fleet = [ l \in Launchers |-> NotStarted ]
    /\ fleetDisk = <<>>
    /\ fleetClock = 0

\* the session identifiers the launchers of the fleet hold
FleetSessionIds == { fleet[l].sessionId : l \in Launchers } \ { <<>> }

\* node orbita-launcher.js: the constructor, launch() up to the sweep
\* (ensureProfileDir makes the root, or finds it)
FleetStart(l) ==
    /\ fleet[l].pc = "idle"
    /\ fleet' = [fleet EXCEPT ![l].pc = "cleanupOldProfiles"]
    /\ UNCHANGED <<fleetDisk, fleetClock>>
    /\ UNCHANGED <<lvars, gvars, bvars>>

\* the directories cleanupOldProfiles removes when it meets no error
FleetExpired(d, now) == { n \in DOMAIN d : d[n] < now - MaxAgeMs }

\* cleanupOldProfiles at the time fleetClock: it removes the directories
\* older than the cutoff, all of them without an error, those it reached
\* before the first error otherwise
FleetCleanup(l) ==
    /\ fleet[l].pc = "cleanupOldProfiles"
    /\ \E removed \in SUBSET FleetExpired(fleetDisk, fleetClock) :
          fleetDisk' = [ n \in (DOMAIN fleetDisk) \ removed |-> fleetDisk[n] ]
    /\ fleet' = [fleet EXCEPT ![l].pc = "fetch"]
    /\ UNCHANGED fleetClock
    /\ UNCHANGED <<lvars, gvars, bvars>>

\* fetchGologinFingerprint: a descriptor with a fresh session identifier, or
\* the throw after the last attempt and process.exit(1)
FleetFetch(l) ==
    /\ fleet[l].pc = "fetch"
    /\ \/ \E u \in Uuids \ FleetSessionIds :
            fleet' = [fleet EXCEPT ![l].pc = "setupProfileDirectory",
                                   ![l].sessionId = u]
       \/ fleet' = [fleet EXCEPT ![l].pc = "failed"]
    /\ UNCHANGED <<fleetDisk, fleetClock>>
    /\ UNCHANGED <<lvars, gvars, bvars>>

\* setupProfileDirectory, failStep as in the launcher's own specification;
\* the session directory is made at the time fleetClock
FleetSetup(l) ==
    /\ fleet[l].pc = "setupProfileDirectory"
    /\ \E failStep \in 0..3 :
         /\ fleet' = [fleet EXCEPT
                ![l].pc = "spawn",
                ![l].profilePath =
                    SetupResult(failStep, ProfilePathOf(fleet[l].sessionId))]
         /\ fleetDisk' =
                IF failStep = 1 THEN fleetDisk
                ELSE [ n \in DOMAIN fleetDisk \cup {fleet[l].sessionId} |->
                         IF n = fleet[l].sessionId THEN fleetClock
                         ELSE fleetDisk[n] ]
    /\ UNCHANGED fleetClock
    /\ UNCHANGED <<lvars, gvars, bvars>>

\* spawn(this.orbitaPath, orbitaArgs): the browser runs, or the error
\* handler ends the launcher
FleetSpawn(l) ==
    /\ fleet[l].pc = "spawn"
    /\ \E started \in BOOLEAN :
         fleet' = [fleet EXCEPT
             ![l].pc = IF started THEN "running" ELSE "failed",
             ![l].child = IF started THEN "running" ELSE "failed"]
    /\ UNCHANGED <<fleetDisk, fleetClock>>
    /\ UNCHANGED <<lvars, gvars, bvars>>

\* the close handler: the browser has ended; the session directory is
\* removed when there is a handle and the rmdir succeeds; process.exit
FleetClose(l) ==
    /\ fleet[l].pc = "running"
    /\ fleet' = [fleet EXCEPT ![l].pc = "done", ![l].child = "closed"]
    /\ \E rmdirOk \in BOOLEAN :
         fleetDisk' =
            IF fleet[l].profilePath # NoPath /\ rmdirOk
            THEN [ n \in (DOMAIN fleetDisk) \ {fleet[l].sessionId} |->
                     fleetDisk[n] ]
            ELSE fleetDisk
    /\ UNCHANGED fleetClock
    /\ UNCHANGED <<lvars, gvars, bvars>>

\* the running browser adds or removes an entry of its profile directory,
\* which sets the directory's last-modified time
FleetTouch(l) ==
    /\ fleet[l].pc = "running" /\ fleet[l].profilePath # NoPath
    /\ fleet[l].sessionId \in DOMAIN fleetDisk
    /\ fleetDisk[fleet[l].sessionId] # fleetClock
    /\ fleetDisk' = [fleetDisk EXCEPT ![fleet[l].sessionId] = fleetClock]
    /\ UNCHANGED <<fleet, fleetClock>>
    /\ UNCHANGED <<lvars, gvars, bvars>>

\* an hour passes
FleetTick ==
    /\ fleetClock < MaxHours * HourMs
    /\ fleetClock' = fleetClock + HourMs
    /\ UNCHANGED <<fleet, fleetDisk>>
    /\ UNCHANGED <<lvars, gvars, bvars>>

FNext ==
    \/ \E l \in Launchers : FleetStart(l)
    \/ \E l \in Launchers : FleetCleanup(l)
    \/ \E l \in Launchers : FleetFetch(l)
    \/ \E l \in Launchers : FleetSetup(l)
    \/ \E l \in Launchers : FleetSpawn(l)
    \/ \E l \in Launchers : FleetClose(l)
    \/ \E l \in Launchers : FleetTouch(l)
    \/ FleetTick
(***************************************************************************)
(* BrowserlessOrbitaWrapper: the supervised backend process                *)
(***************************************************************************)
\* setTimeout(() => this.startBrowserless(), 5000)
restartDelayMs == 5000

\* one tick of the gateway's clock
TickMs == restartDelayMs \div 2

BackendCloseCodes == { 0, 1, NullCode }

\* a plausible slip: restart after every close
RestartWantedAlways(code) == TRUE

\* if (code !== 0)
RestartWanted(code) == code # 0

\* a plausible slip: the restart without its delay
RestartDueAtOnce(now) == now

\* setTimeout(..., 5000) set at time now: when the timer is due
RestartDueAt(now) == now + restartDelayMs

\* startBrowserless(): createOrbitaLaunchScript() writes the launch script,
\* then this.browserlessProcess = spawn(...); a spawn that fails leaves a
\* child that never ran, with an error event and a close event to deliver
StartBrowserless(via) ==
    /\ launchScripts' = launchScripts + 1
    /\ \E started \in BOOLEAN :
         procs' = Append(procs,
             [ state |-> IF started THEN "running" ELSE "failed",
               errorLogged |-> FALSE, code |-> NullCode,
               startedAt |-> clock, closedAt |-> 0, via |-> via ])
    /\ browserlessProcess' = Len(procs) + 1

\* the gateway's process before new BrowserlessOrbitaWrapper()
GInit ==
    /\ gwToken \in Tokens
    /\ procs = <<>>
    /\ browserlessProcess = 0
    /\ launchScripts = 0
    /\ listening = FALSE
    /\ endpointCalls = <<>>
    /\ restarts = <<>>
    /\ clock = 0
    /\ activeFingerprints = <<>>
    /\ requests = <<>>
    /\ usedUuids = {}
    /\ gwApiCalls = 0
    /\ gwSignals = <<>>
    /\ gwKills = <<>>
    /\ gwExited = FALSE
    /\ gwExitStatus = 0

\* the gateway in the specifications of the others: constructed, listening,
\* its first backend process running
GIdle ==
    /\ gwToken = <<"secret">>
    /\ procs = << [ state |-> "running", errorLogged |-> FALSE,
                    code |-> NullCode, startedAt |-> 0, closedAt |-> 0,
                    via |-> 0 ] >>
    /\ browserlessProcess = 1
    /\ launchScripts = 1
    /\ listening = TRUE
    /\ endpointCalls = <<>>
    /\ restarts = <<>>
    /\ clock = 0
    /\ activeFingerprints = <<>>
    /\ requests = <<>>
    /\ usedUuids = {}
    /\ gwApiCalls = 0
    /\ gwSignals = <<>>
    /\ gwKills = <<>>
    /\ gwExited = FALSE
    /\ gwExitStatus = 0

\* new BrowserlessOrbitaWrapper() and start(), which run in one turn:
\* without a token the constructor throws, nothing catches it, and the
\* process ends with status 1; otherwise the routes are set up, the first
\* backend process is started and app.listen is called
GatewayConstruct ==
    /\ ~gwExited /\ ~listening
    /\ IF TokenMissing(gwToken)
       THEN /\ gwExited' = TRUE
            /\ gwExitStatus' = 1
            /\ UNCHANGED <<procs, browserlessProcess, launchScripts,
                           listening>>
       ELSE /\ StartBrowserless(0)
            /\ listening' = TRUE
            /\ UNCHANGED <<gwExited, gwExitStatus>>
    /\ UNCHANGED <<gwToken, restarts, clock, activeFingerprints, requests,
                   endpointCalls, usedUuids, gwApiCalls, gwSignals, gwKills>>
    /\ UNCHANGED <<lvars, bvars, fvars>>

\* browserlessProcess.on("error"): logged, nothing else
OnBackendError ==
    /\ ~gwExited
    /\ \E p \in 1..Len(procs) :
         /\ procs[p].state = "failed" /\ ~procs[p].errorLogged
         /\ procs' = [procs EXCEPT ![p].errorLogged = TRUE]
    /\ UNCHANGED <<gwToken, browserlessProcess, launchScripts, listening,
                   restarts, clock, activeFingerprints, requests,
                   endpointCalls, usedUuids, gwApiCalls, gwSignals, gwKills,
                   gwExited, gwExitStatus>>
    /\ UNCHANGED <<lvars, bvars, fvars>>

\* browserlessProcess.on("close"): a backend process has ended with `code`
\* (a child that never started closes with the errno of its spawn, after its
\* error event)
OnBackendClose ==
    /\ ~gwExited
    /\ \E p \in 1..Len(procs) :
         /\ \/ procs[p].state = "running"
            \/ procs[p].state = "failed" /\ procs[p].errorLogged
         /\ \E code \in IF procs[p].state = "failed" THEN {SpawnFailCode}
                        ELSE BackendCloseCodes :
              /\ procs' = [procs EXCEPT ![p].state = "closed",
                                        ![p].code = code,
                                        ![p].closedAt = clock]
              /\ restarts' = IF RestartWanted(code)
                             THEN Append(restarts,
                                      [ by |-> p, due |-> RestartDueAt(clock),
                                        fired |-> FALSE ])
                             ELSE restarts
    /\ UNCHANGED <<gwToken, browserlessProcess, launchScripts, listening,
                   clock, activeFingerprints, requests, endpointCalls,
                   usedUuids, gwApiCalls, gwSignals, gwKills, gwExited,
                   gwExitStatus>>
    /\ UNCHANGED <<lvars, bvars, fvars>>

\* a restart timer fires, not before it is due: startBrowserless()
RestartFire ==
    /\ ~gwExited /\ Len(procs) < MaxStarts
    /\ \E r \in 1..Len(restarts) :
         /\ ~restarts[r].fired /\ clock >= restarts[r].due
         /\ restarts' = [restarts EXCEPT ![r].fired = TRUE]
         /\ StartBrowserless(r)
    /\ UNCHANGED <<gwToken, listening, clock, activeFingerprints, requests,
                   endpointCalls, usedUuids, gwApiCalls, gwSignals, gwKills,
                   gwExited, gwExitStatus>>
    /\ UNCHANGED <<lvars, bvars, fvars>>

\* time passes
Tick ==
    /\ ~gwExited /\ listening /\ clock < MaxTicks * TickMs
    /\ clock' = clock + TickMs
    /\ UNCHANGED <<gwToken, procs, browserlessProcess, launchScripts,
                   listening, restarts, activeFingerprints, requests,
                   endpointCalls, usedUuids, gwApiCalls, gwSignals, gwKills,
                   gwExited, gwExitStatus>>
    /\ UNCHANGED <<lvars, bvars, fvars>>

(***************************************************************************)
(* BrowserlessOrbitaWrapper: fingerprintMiddleware                         *)
(***************************************************************************)
\* `orbita-${uuidv4().slice(0, 8)}`
ProfileId(u) == <<"orbita-">> \o SubSeq(u, 1, 1)

\* a plausible slip: the body is used without the test for a falsy body
generateFreshFingerprintUnchecked(outcome, u) ==
    IF outcome.kind # "reject"
    THEN [ profile_id |-> ProfileId(u), data |-> outcome.data ]
    ELSE NoFingerprint

\* generateFreshFingerprint: the descriptor wrapped with a profile id, or
\* null for a falsy body and for any error of the request (created_at, the
\* wall-clock time of the fetch, is read by nothing and is left out)
generateFreshFingerprint(outcome, u) ==
    IF outcome.kind = "data"
    THEN [ profile_id |-> ProfileId(u), data |-> outcome.data ]
    ELSE NoFingerprint

\* what the awaited part of the middleware's try block can come to: the
\* outcomes of the remote call, or an exception that reaches the catch block
MiddlewareOutcomes ==
    { o \in ApiOutcomes : o.data = BareDescriptor }
        \cup { [kind |-> "throw", data |-> BareDescriptor] }

\* a plausible slip: the registry holds the latest session only
MapSetReplacing(map, key, value) == [ k \in {key} |-> value ]

\* this.activeFingerprints.set(key, value)
MapSet(map, key, value) ==
    [ k \in DOMAIN map \cup {key} |-> IF k = key THEN value ELSE map[k] ]

\* req.headers.upgrade of a request on /chrome: a WebSocket upgrade, or none
UpgradeHeaders == { <<"websocket">>, <<>> }

\* a plausible slip: a fingerprint for every request on the path
WantsFingerprintAlways(header) == TRUE

\* if (req.headers.upgrade === "websocket")
WantsFingerprint(header) == header = <<"websocket">>

\* the requests the gateway's routes have received
Received == Len(requests) + Len(endpointCalls)

\* fingerprintMiddleware up to its await: a request on /chrome arrives; one
\* that is no WebSocket upgrade goes straight to next()
MiddlewareEnter ==
    /\ ~gwExited /\ listening /\ Received < MaxRequests
    /\ \E header \in UpgradeHeaders :
         LET fetches == WantsFingerprint(header)
         IN  /\ requests' = Append(requests,
                   [ upgrade |-> header = <<"websocket">>,
                     state |-> IF fetches THEN "fetching" ELSE "done",
                     outcome |-> "none",
                     gologinFingerprint |-> NoFingerprint,
                     apiCalls |-> IF fetches THEN 1 ELSE 0,
                     nextCalls |-> IF fetches THEN 0 ELSE 1 ])
             /\ gwApiCalls' = IF fetches THEN gwApiCalls + 1 ELSE gwApiCalls
    /\ UNCHANGED <<gwToken, procs, browserlessProcess, launchScripts,
                   listening, restarts, clock, activeFingerprints,
                   endpointCalls, usedUuids, gwSignals, gwKills, gwExited,
                   gwExitStatus>>
    /\ UNCHANGED <<lvars, bvars, fvars>>

\* fingerprintMiddleware after its await: the fingerprint, when there is one,
\* is attached and registered; next() is called on every path, the catch
\* block included
MiddlewareResume ==
    /\ ~gwExited
    /\ \E i \in 1..Len(requests) :
         /\ requests[i].state = "fetching"
         /\ \E outcome \in MiddlewareOutcomes :
            \E u \in Uuids \ usedUuids :
              LET fp == IF outcome.kind = "throw" THEN NoFingerprint
                        ELSE generateFreshFingerprint(outcome, u)
              IN  /\ requests' = [requests EXCEPT
                         ![i].state = "done",
                         ![i].outcome = outcome.kind,
                         ![i].gologinFingerprint = fp,
                         ![i].nextCalls = @ + 1]
                  /\ activeFingerprints' =
                         IF fp # NoFingerprint
                         THEN MapSet(activeFingerprints, fp.profile_id, fp)
                         ELSE activeFingerprints
                  /\ usedUuids' = IF outcome.kind = "data"
                                  THEN usedUuids \cup {u} ELSE usedUuids
    /\ UNCHANGED <<gwToken, procs, browserlessProcess, launchScripts,
                   listening, restarts, clock, endpointCalls, gwApiCalls,
                   gwSignals, gwKills, gwExited, gwExitStatus>>
    /\ UNCHANGED <<lvars, bvars, fvars>>

(***************************************************************************)
(* BrowserlessOrbitaWrapper: setupGologinEndpoints                         *)
(***************************************************************************)
\* what the remote call of GET /gologin/generate can come to
EndpointOutcomes == { o \in ApiOutcomes : o.data = BareDescriptor }

\* GET /gologin/generate up to its await: the one remote call
GenerateEnter ==
    /\ ~gwExited /\ listening /\ Received < MaxRequests
    /\ endpointCalls' = Append(endpointCalls,
           [ route |-> "generate", state |-> "fetching", status |-> 0,
             profile_id |-> <<>>, keys |-> {}, count |-> 0, apiCalls |-> 1 ])
    /\ gwApiCalls' = gwApiCalls + 1
    /\ UNCHANGED <<gwToken, procs, browserlessProcess, launchScripts,
                   listening, restarts, clock, activeFingerprints, requests,
                   usedUuids, gwSignals, gwKills, gwExited, gwExitStatus>>
    /\ UNCHANGED <<lvars, bvars, fvars>>

\* GET /gologin/generate after its await: the fingerprint is sent back with
\* status 200, or status 500 when there is none; nothing is stored
GenerateResume ==
    /\ ~gwExited
    /\ \E i \in 1..Len(endpointCalls) :
         /\ endpointCalls[i].state = "fetching"
         /\ \E outcome \in EndpointOutcomes :
            \E u \in Uuids \ usedUuids :
              LET fp == generateFreshFingerprint(outcome, u)
              IN  /\ endpointCalls' = [endpointCalls EXCEPT
                         ![i].state = "done",
                         ![i].status = IF fp # NoFingerprint THEN 200 ELSE 500,
                         ![i].profile_id = IF fp # NoFingerprint
                                           THEN fp.profile_id ELSE <<>>]
                  /\ usedUuids' = IF outcome.kind = "data"
                                  THEN usedUuids \cup {u} ELSE usedUuids
    /\ UNCHANGED <<gwToken, procs, browserlessProcess, launchScripts,
                   listening, restarts, clock, activeFingerprints, requests,
                   gwApiCalls, gwSignals, gwKills, gwExited, gwExitStatus>>
    /\ UNCHANGED <<lvars, bvars, fvars>>

\* GET /gologin/active: the keys of the registry and their number
ListActive ==
    /\ ~gwExited /\ listening /\ Received < MaxRequests
    /\ endpointCalls' = Append(endpointCalls,
           [ route |-> "active", state |-> "done", status |-> 200,
             profile_id |-> <<>>, keys |-> DOMAIN activeFingerprints,
             count |-> Cardinality(DOMAIN activeFingerprints),
             apiCalls |-> 0 ])
    /\ UNCHANGED <<gwToken, procs, browserlessProcess, launchScripts,
                   listening, restarts, clock, activeFingerprints, requests,
                   usedUuids, gwApiCalls, gwSignals, gwKills, gwExited,
                   gwExitStatus>>
    /\ UNCHANGED <<lvars, bvars, fvars>>

\* GET /health: the size of the registry among the fields sent back
Health ==
    /\ ~gwExited /\ listening /\ Received < MaxRequests
    /\ endpointCalls' = Append(endpointCalls,
           [ route |-> "health", state |-> "done", status |-> 200,
             profile_id |-> <<>>, keys |-> {},
             count |-> Cardinality(DOMAIN activeFingerprints),
             apiCalls |-> 0 ])
    /\ UNCHANGED <<gwToken, procs, browserlessProcess, launchScripts,
                   listening, restarts, clock, activeFingerprints, requests,
                   usedUuids, gwApiCalls, gwSignals, gwKills, gwExited,
                   gwExitStatus>>
    /\ UNCHANGED <<lvars, bvars, fvars>>

(***************************************************************************)
(* BrowserlessOrbitaWrapper: shutdown and the signal handlers              *)
(***************************************************************************)
\* SIGTERM or SIGINT reaches the gateway: shutdown() sends SIGTERM to the
\* backend process and calls process.exit(0) at once
GatewaySignal ==
    /\ ~gwExited /\ listening /\ Len(gwSignals) < MaxSignals
    /\ \E sig \in Signals :
         gwSignals' = Append(gwSignals,
             [ sig |-> sig, alive |-> procs[browserlessProcess].state = "running" ])
    /\ gwKills' = Append(gwKills,
           [ sig |-> "SIGTERM",
             alive |-> procs[browserlessProcess].state = "running" ])
    /\ gwExited' = TRUE
    /\ gwExitStatus' = 0
    /\ UNCHANGED <<gwToken, procs, browserlessProcess, launchScripts,
                   listening, restarts, clock, activeFingerprints, requests,
                   endpointCalls, usedUuids, gwApiCalls>>
    /\ UNCHANGED <<lvars, bvars, fvars>>

GNext ==
    \/ GatewayConstruct
    \/ OnBackendError
    \/ OnBackendClose
    \/ RestartFire
    \/ Tick
    \/ MiddlewareEnter
    \/ MiddlewareResume
    \/ GenerateEnter
    \/ GenerateResume
    \/ ListActive
    \/ Health
    \/ GatewaySignal

(***************************************************************************)
(* buildOrbitaArgs applied to arbitrary inputs                             *)
(***************************************************************************)
BuilderDescriptors ==
    { [ navigator |-> [ userAgent |-> ua, resolution |-> res, language |-> lang,
                        platform |-> plat, hardwareConcurrency |-> hc,
                        deviceMemory |-> dm ],
        canvasMode |-> canvas,
        webGLMode |-> webgl,
        sessionId |-> <<"0a1b2c3d", "-x">> ] :
        ua \in { <<>>, <<"Mozilla/5.0">> },
        res \in { <<>>, <<"1920", "x", "1080">>, <<"1920">> },
        lang \in { <<>>, <<"en-US", ",", "en">>, <<"de">> },
        plat \in { <<"Win32">>, <<"Mac", "Intel">> },
        hc \in { 0, 8 },
        dm \in { 0, 4 },
        canvas \in { <<>>, <<"off">>, <<"noise">> },
        webgl \in { <<>>, <<"off">> } }

\* arguments a caller may pass: a baseline flag itself, a baseline flag name
\* with another value, a longer flag that starts with a baseline flag name,
\* and a flag the builder derives from the fingerprint
CallerArgPool ==
    { <<"--no-sandbox">>,
      <<"--remote-debugging-port", "=", "9222">>,
      <<"--disable-dev-shm-usage", "-extra">>,
      <<"--disable-canvas-aa">> }

CallerArgLists ==
    UNION { [1..n -> CallerArgPool] : n \in 0..MaxCallerArgs }

BInit ==
    /\ bFingerprint \in BuilderDescriptors
    /\ bProfilePath \in { NoPath, ProfilePathOf(<<"0a1b2c3d", "-x">>) }
    /\ bOriginalArgs \in CallerArgLists
    /\ bResult = <<>>
    /\ bDone = FALSE

\* the builder in the specifications of the others
BIdle ==
    /\ bFingerprint = AttachSessionId(BareDescriptor, <<"0a1b2c3d", "-x">>)
    /\ bProfilePath = NoPath
    /\ bOriginalArgs = <<>>
    /\ bResult = <<>>
    /\ bDone = FALSE

\* const orbitaArgs = this.buildOrbitaArgs(fingerprint, profilePath, originalArgs)
Build ==
    /\ ~bDone
    /\ bResult' = buildOrbitaArgs(bFingerprint, bProfilePath, bOriginalArgs)
    /\ bDone' = TRUE
    /\ UNCHANGED <<bFingerprint, bProfilePath, bOriginalArgs>>
    /\ UNCHANGED <<lvars, gvars, fvars>>

BNext == Build

(***************************************************************************)
(* Specifications: the launcher, the gateway, the builder, the start of    *)
(* the launcher and the gateway side by side, and a fleet of launchers.    *)
(***************************************************************************)
Init == LInit /\ GIdle /\ BIdle /\ FIdle

Next == LNext

Spec == Init /\ [][Next]_vars

GatewayInit == GInit /\ LIdle /\ BIdle /\ FIdle

GatewaySpec == GatewayInit /\ [][GNext]_vars

BuilderInit == BInit /\ LIdle /\ GIdle /\ FIdle

BuilderSpec == BuilderInit /\ [][BNext]_vars


\* the launcher and the gateway are separate processes, each with its own
\* environment; StartupSpec starts both, at least one of them without the
\* token
StartupInit ==
    /\ LInit
    /\ originalArgs = << <<"--remote-debugging-port", "=", "9222">> >>
    /\ rootExists = FALSE
    /\ GInit
    /\ BIdle
    /\ FIdle
    /\ (token = <<>> \/ gwToken = <<>>)

StartupNext == LNext \/ GNext

StartupSpec == StartupInit /\ [][StartupNext]_vars

\* several launcher processes that share /tmp/orbita-profiles
FleetInit == FIdle /\ LIdle /\ GIdle /\ BIdle

FleetSpec == FleetInit /\ [][FNext]_vars
(***************************************************************************)
(* Properties.                                                             *)
(***************************************************************************)
\* how often x occurs in the sequence s
Count(s, x) == Cardinality({ i \in 1..Len(s) : s[i] = x })

\* C1: when every call of the launcher's fingerprint fetch fails, the fetch
\* makes exactly 3 attempts, waits 1000 ms after the first failure and
\* 2000 ms after the second and nothing after the third, then fails with an
\* error that carries the error of the last attempt; there is never a 4th
\* attempt.
C1_ExhaustedFetch ==
    /\ apiCalls <= 3
    /\ Len(attemptLog) = apiCalls
    /\ (\A i \in 1..Len(attemptLog) : attemptLog[i].kind # "data")
          => /\ delays = SubSeq(<<1000, 2000>>, 1,
                                IF apiCalls < 2 THEN apiCalls ELSE 2)
             /\ (apiCalls = 3 <=> fetchError # NoError)
    /\ fetchError # NoError
          => /\ apiCalls = 3
             /\ \A i \in 1..3 : attemptLog[i].kind # "data"
             /\ delays = <<1000, 2000>>
             /\ fetchError = [ attempts |-> 3,
                               last |-> ErrorOf(attemptLog[3].kind) ]
             /\ fingerprint = NoFingerprint

\* three failed attempts of both kinds, the last an empty body
C1_Witness ==
    /\ fetchError # NoError
    /\ attemptLog[1].kind = "reject"
    /\ attemptLog[3].kind = "empty"
    /\ fetchError.last = "Invalid response from GoLogin API"

\* C2: if attempt k (1 <= k <= 3) is the first whose call returns a non-empty
\* body, the fetch returns that descriptor with a freshly generated session
\* identifier attached after exactly k attempts and makes no further call;
\* an empty body counts as a failed attempt and is retried like a network
\* error.
C2_FirstSuccess ==
    /\ Len(attemptLog) = apiCalls
    /\ \A i \in 1..Len(attemptLog) :
         IF attemptLog[i].kind = "data"
         THEN /\ i = Len(attemptLog) /\ i <= 3
              /\ fingerprint.sessionId \in LauncherUuids
              /\ fingerprint = AttachSessionId(attemptLog[i].data,
                                               fingerprint.sessionId)
              /\ fetchError = NoError
              /\ pc \notin {"fetch", "retryDelay", "failed"}
              /\ delays = [ j \in 1..(i - 1) |-> j * 1000 ]
         ELSE i < 3 =>
                /\ Len(delays) >= i /\ delays[i] = i * 1000
                /\ Len(attemptLog) > i \/ pc \in {"fetch", "retryDelay"}
    /\ fingerprint # NoFingerprint
          => /\ attemptLog # <<>>
             /\ attemptLog[Len(attemptLog)].kind = "data"

\* an empty body, a network error, then a descriptor at the third attempt
C2_Witness ==
    /\ Len(attemptLog) = 3
    /\ attemptLog[1].kind = "empty"
    /\ attemptLog[2].kind = "reject"
    /\ attemptLog[3].kind = "data"
    /\ pc = "setupProfileDirectory"
    /\ fingerprint.sessionId \in LauncherUuids

\* C3: every request that reaches the gateway's fingerprint middleware is
\* passed on to the proxy exactly once whatever the fetch came to; an upgrade
\* whose fetch fails, or whose middleware body throws, is forwarded with no
\* fingerprint attached and no entry added to the registry.
C3_ForwardedOnce ==
    /\ \A i \in 1..Len(requests) :
         /\ requests[i].nextCalls = IF requests[i].state = "done" THEN 1 ELSE 0
         /\ (requests[i].state = "done" /\ requests[i].outcome # "data")
               => requests[i].gologinFingerprint = NoFingerprint
    /\ DOMAIN activeFingerprints =
          { requests[i].gologinFingerprint.profile_id :
              i \in { j \in 1..Len(requests) : requests[j].outcome = "data" } }

\* one upgrade whose fetch was rejected and one whose body threw, both
\* forwarded, the registry empty
C3_Witness ==
    /\ Len(requests) = 2
    /\ requests[1].upgrade /\ requests[1].outcome = "reject"
    /\ requests[2].upgrade /\ requests[2].outcome = "throw"
    /\ requests[1].nextCalls = 1 /\ requests[2].nextCalls = 1
    /\ activeFingerprints = <<>>

\* C4: a close of the backend process with code 0 never sets a restart timer;
\* a close with any other code sets exactly one, due 5000 ms after the close,
\* and a process other than the first is started only by such a timer, each
\* timer starting one process and not before it is due.
C4_KeepAlive ==
    /\ \A p \in 1..Len(procs) :
         procs[p].state = "closed" =>
           LET mine == { r \in 1..Len(restarts) : restarts[r].by = p }
           IN  /\ Cardinality(mine) = IF procs[p].code = 0 THEN 0 ELSE 1
               /\ \A r \in mine : restarts[r].due = procs[p].closedAt + 5000
    /\ \A r \in 1..Len(restarts) :
         /\ restarts[r].by \in 1..Len(procs)
         /\ procs[restarts[r].by].state = "closed"
         /\ Cardinality({ p \in 1..Len(procs) : procs[p].via = r })
               = IF restarts[r].fired THEN 1 ELSE 0
    /\ \A p \in 2..Len(procs) :
         /\ procs[p].via \in 1..Len(restarts)
         /\ procs[p].startedAt >= restarts[procs[p].via].due

\* the first process closed with code 1 and was restarted; the second closed
\* with code 0 and was not
C4_Witness ==
    /\ Len(procs) = 2
    /\ procs[1].state = "closed" /\ procs[1].code = 1
    /\ procs[2].state = "closed" /\ procs[2].code = 0
    /\ procs[2].startedAt >= procs[1].closedAt + 5000
    /\ Len(restarts) = 1

\* C5: if the launcher's fingerprint fetch fails after its retries, the
\* launch is aborted: no profile directory is created for the session, the
\* browser is never spawned, and the launcher exits with code 1.
C5_FetchFailureAborts ==
    fetchError # NoError =>
        /\ exited = "exit" /\ exitStatus = 1
        /\ orbitaProcess = "none" /\ orbitaArgs = <<>>
        /\ profilePath = NoPath /\ prefs = <<>>
        /\ (DOMAIN disk) \cap LauncherUuids = {}

C5_Witness ==
    /\ fetchError # NoError
    /\ Len(attemptLog) = 3
    /\ exited = "exit" /\ exitStatus = 1

\* C6 as stated: whenever the browser closes with exit code c, the session's
\* profile directory is reclaimed (its deletion attempted and finished)
\* before the launcher exits, and the launcher exits with c.
C6_Original ==
    (exited = "exit" /\ orbitaProcess = "closed" /\ closeCode # NullCode) =>
        /\ exitStatus = closeCode
        /\ rmdirResult # "none" \/ fingerprint.sessionId \notin DOMAIN disk

\* C6: whenever the browser closes with exit code c and setupProfileDirectory
\* had returned a handle, the deletion of that directory is attempted and
\* finished before the launcher exits; the launcher exits with c whether the
\* deletion succeeds or fails, and also when there is no handle, in which
\* case nothing is deleted.
C6_ReclaimThenExit ==
    /\ pc = "closeHandler" => exited = "no" /\ rmdirResult = "none"
    /\ (exited = "exit" /\ orbitaProcess = "closed" /\ closeCode # NullCode) =>
          /\ exitStatus = closeCode
          /\ IF profilePath # NoPath
             THEN /\ rmdirResult \in {"ok", "failed"}
                  /\ rmdirResult = "ok" => fingerprint.sessionId \notin DOMAIN disk
             ELSE rmdirResult = "none"

\* the browser closed with code 2, the deletion failed, the launcher exited 2
C6_Witness ==
    /\ exited = "exit" /\ orbitaProcess = "closed"
    /\ closeCode = 2 /\ exitStatus = 2
    /\ profilePath # NoPath /\ rmdirResult = "failed"

\* arguments of a list that set the user data directory
UserDataDirCount(args) ==
    Cardinality({ i \in 1..Len(args) :
                    StartsWith(args[i], <<"--user-data-dir", "=">>) })

\* C7: a failure while preparing the profile directory does not abort the
\* session: prepare returns an empty handle, the launch goes on to the
\* spawn, the builder adds no user-data-directory flag, and no reclaim is
\* attempted when the browser exits.
C7_SetupFailureTolerated ==
    setupFail # 0 =>
        /\ profilePath = NoPath
        /\ pc \in {"spawn", "running", "done"}
        /\ ~(exited = "exit" /\ orbitaProcess = "none")
        /\ pc \in {"running", "done"} =>
              /\ orbitaProcess # "none"
              /\ UserDataDirCount(orbitaArgs) = UserDataDirCount(originalArgs)
        /\ rmdirResult = "none"

\* the write of Preferences failed, the browser ran and closed, the launcher
\* exited without a reclaim
C7_Witness ==
    /\ setupFail = 3
    /\ orbitaProcess = "closed" /\ exited = "exit"
    /\ orbitaArgs # <<>> /\ rmdirResult = "none"

\* the signals of a log that found the child alive
AliveSignals(log) ==
    LET alive(e) == e.alive
    IN  SelectSeq(log, alive)

\* C8: a SIGTERM or SIGINT that reaches the launcher while the browser runs
\* is relayed to the child as that same signal; the launcher never exits
\* while its child is alive, and the reclaim and the exit come only after the
\* child has closed.
C8_SignalRelayed ==
    /\ AliveSignals(kills) = AliveSignals(signals)
    /\ exited # "no" => orbitaProcess # "running"
    /\ (pc = "closeHandler" \/ rmdirResult # "none") => orbitaProcess = "closed"

\* SIGINT relayed to the running child, which then closed; the directory was
\* reclaimed and the launcher exited
C8_Witness ==
    /\ Len(signals) >= 1 /\ signals[1] = [ sig |-> "SIGINT", alive |-> TRUE ]
    /\ kills[1] = [ sig |-> "SIGINT", alive |-> TRUE ]
    /\ orbitaProcess = "closed" /\ rmdirResult = "ok" /\ exited = "exit"

\* C9 as stated: when a termination signal reaches the gateway while the
\* backend process runs, the signal is relayed and the child's exit is
\* awaited before the gateway itself exits.
C9_ShutdownAwaitsChild ==
    gwExited =>
        /\ \A p \in 1..Len(procs) : procs[p].state # "running"
        /\ \A i \in 1..Len(gwSignals) :
             gwSignals[i].alive => gwKills[i].alive

BaselineFlags == { essentialArgs[i] : i \in 1..Len(essentialArgs) }

\* whether some argument of a list has the flag name of b
SharesFlagName(args, b) ==
    \E i \in 1..Len(args) : ArgKey(args[i]) = ArgKey(b)

\* C10 as stated: the result contains no baseline flag that shares its flag
\* name with a caller-supplied argument; every baseline flag name is
\* represented by an argument that starts with it; the baseline flag itself
\* appears at most once.
C10_Original ==
    bDone =>
        \A b \in BaselineFlags :
            /\ SharesFlagName(bOriginalArgs, b) => Count(bResult, b) = 0
            /\ \E j \in 1..Len(bResult) : StartsWith(bResult[j], ArgKey(b))
            /\ Count(bResult, b) <= 1

\* C10: the builder appends no baseline flag that shares its flag name with a
\* caller-supplied argument, so such a flag is in the result only as often as
\* the caller passed it; every baseline flag name is represented by an
\* argument that starts with it; the builder appends a baseline flag at most
\* once.
C10_BaselineNotDuplicated ==
    bDone =>
        \A b \in BaselineFlags :
            /\ SharesFlagName(bOriginalArgs, b)
                  => Count(bResult, b) = Count(bOriginalArgs, b)
            /\ \E j \in 1..Len(bResult) : StartsWith(bResult[j], ArgKey(b))
            /\ Count(bResult, b) - Count(bOriginalArgs, b) \in {0, 1}

\* the caller set the debugging port: the baseline port flag is left out,
\* the caller's flag stands for its name
C10_Witness ==
    /\ bDone
    /\ bOriginalArgs = << <<"--remote-debugging-port", "=", "9222">> >>
    /\ Count(bResult, <<"--remote-debugging-port", "=", "0">>) = 0
    /\ Count(bResult, <<"--no-sandbox">>) = 1


\* the launcher has finished its sweep
SweepDone ==
    pc \in { "fetch", "retryDelay", "setupProfileDirectory", "spawn",
             "running", "closeHandler", "done", "failed" }

\* C11: after a sweep that meets no filesystem error, every profile
\* directory whose last-modified time is older than the cutoff (now minus
\* 2 hours) has been removed and every profile directory whose last-modified
\* time is younger than the cutoff is still present.
C11_SweepByAge ==
    (SweepDone /\ sweepError = "none") =>
        \A n \in DOMAIN diskAtStart :
            /\ diskAtStart[n] < cutoffTime => n \notin DOMAIN disk
            /\ diskAtStart[n] > cutoffTime
                  => n \in DOMAIN disk /\ disk[n] = diskAtStart[n]

\* a sweep without an error over one directory older than the cutoff, which
\* is gone, and one younger, which is still there
C11_Witness ==
    /\ SweepDone /\ sweepError = "none"
    /\ DOMAIN diskAtStart = { <<"old", "1">>, <<"old", "2">> }
    /\ diskAtStart[<<"old", "1">>] < cutoffTime
    /\ diskAtStart[<<"old", "2">>] > cutoffTime
    /\ DOMAIN disk = { <<"old", "2">> }

CanvasFlags == { <<"--disable-canvas-aa">>, <<"--disable-2d-canvas-clip-aa">> }

\* C12 as stated: the result contains both canvas-disabling flags when the
\* descriptor's canvas mode equals "off", and contains neither of them when
\* the canvas mode is absent or has any other value.
C12_Original ==
    bDone =>
        \A f \in CanvasFlags :
            IF bFingerprint.canvasMode = <<"off">>
            THEN Count(bResult, f) >= 1
            ELSE Count(bResult, f) = 0

\* C12: the result contains both canvas-disabling flags when the
\* descriptor's canvas mode equals "off"; when the canvas mode is absent or
\* has any other value the builder adds neither, so each of the two flags
\* is in the result exactly as often as the caller passed it.
C12_CanvasFlags ==
    bDone =>
        \A f \in CanvasFlags :
            IF bFingerprint.canvasMode = <<"off">>
            THEN Count(bResult, f) = Count(bOriginalArgs, f) + 1
            ELSE Count(bResult, f) = Count(bOriginalArgs, f)

\* canvas mode "noise" and a caller that passes --disable-canvas-aa itself:
\* the result has the caller's flag and not the other one
C12_Witness ==
    /\ bDone
    /\ bFingerprint.canvasMode = <<"noise">>
    /\ bOriginalArgs = << <<"--disable-canvas-aa">> >>
    /\ Count(bResult, <<"--disable-canvas-aa">>) = 1
    /\ Count(bResult, <<"--disable-2d-canvas-clip-aa">>) = 0

\* a resolution of the form WxH
IsWxH(res) == Len(res) = 3 /\ res[2] = "x" /\ res[1] # "x" /\ res[3] # "x"

\* C13: for every descriptor whose resolution is a string "WxH", the result
\* contains the window-size flag --window-size=W,H (width first, then
\* height, separated by a comma).
C13_WindowSize ==
    LET res == bFingerprint.navigator.resolution
    IN  (bDone /\ IsWxH(res)) =>
            Count(bResult,
                  <<"--window-size", "=", res[1], ",", res[3]>>) >= 1

\* "1920x1080" has given --window-size=1920,1080
C13_Witness ==
    /\ bDone
    /\ bFingerprint.navigator.resolution = <<"1920", "x", "1080">>
    /\ Count(bResult, <<"--window-size", "=", "1920", ",", "1080">>) = 1

\* C14: for every descriptor whose language is a non-empty comma-separated
\* list, the result contains a primary-language flag carrying only the
\* first list element, followed directly by an accept-language flag carrying
\* the full list.
C14_LanguageFlags ==
    LET lang == bFingerprint.navigator.language
    IN  (bDone /\ lang # <<>>) =>
            \E i \in 1..(Len(bResult) - 1) :
                /\ bResult[i] = <<"--lang", "=", lang[1]>>
                /\ bResult[i + 1] = <<"--accept-lang", "=">> \o lang

\* "en-US,en" has given --lang=en-US and, next to it, --accept-lang=en-US,en
C14_Witness ==
    /\ bDone
    /\ bFingerprint.navigator.language = <<"en-US", ",", "en">>
    /\ \E i \in 1..(Len(bResult) - 1) :
          /\ bResult[i] = <<"--lang", "=", "en-US">>
          /\ bResult[i + 1] = <<"--accept-lang", "=", "en-US", ",", "en">>

\* C15: when the remote API token is not configured, startup fails
\* immediately in both the gateway and the launcher: construction raises the
\* configuration error before any child process is spawned, any launch
\* script is written, any HTTP listener is opened or any remote fingerprint
\* call is made.
C15_MissingTokenFailsStartup ==
    /\ token = <<>> =>
          /\ pc \in { "constructor", "configError" }
          /\ pc = "configError" <=> exited = "uncaught"
          /\ exited = "uncaught" => exitStatus = 1
          /\ orbitaProcess = "none" /\ orbitaArgs = <<>>
          /\ apiCalls = 0 /\ attemptLog = <<>>
          /\ disk = diskAtStart /\ profilePath = NoPath
    /\ gwToken = <<>> =>
          /\ procs = <<>> /\ browserlessProcess = 0
          /\ launchScripts = 0
          /\ ~listening
          /\ gwApiCalls = 0 /\ requests = <<>> /\ endpointCalls = <<>>
          /\ gwExited => gwExitStatus = 1

\* both processes were started without the token and both have ended in
\* their constructors
C15_Witness ==
    /\ token = <<>> /\ gwToken = <<>>
    /\ pc = "configError" /\ exited = "uncaught" /\ exitStatus = 1
    /\ gwExited /\ gwExitStatus = 1
    /\ procs = <<>> /\ launchScripts = 0 /\ ~listening

\* C16: the gateway's active-session registry is append-only: after any
\* sequence of requests, backend process exits and restarts, every session
\* identifier that was ever inserted is still present; no operation removes
\* or clears an entry.
C16_RegistryAppendOnly ==
    [][\A k \in DOMAIN activeFingerprints : k \in DOMAIN activeFingerprints']_vars

\* a session is in the registry, the backend has exited and been restarted,
\* and a listing has shown the session
C16_Witness ==
    /\ Cardinality(DOMAIN activeFingerprints) = 1
    /\ Len(procs) = 2 /\ procs[1].state = "closed"
    /\ \E i \in 1..Len(endpointCalls) :
          /\ endpointCalls[i].route = "active"
          /\ endpointCalls[i].keys = DOMAIN activeFingerprints

\* nextCalls of the i-th request on the intercepted path, 0 before it arrived
NextCallsOf(reqs, i) == IF i <= Len(reqs) THEN reqs[i].nextCalls ELSE 0

\* C17: for a WebSocket upgrade on the intercepted path the fingerprint fetch
\* completes before the request is forwarded, and when it succeeds the
\* descriptor is attached to the request and present in the registry at the
\* moment of forwarding; requests on the intercepted path that are not
\* WebSocket upgrades and the on-demand, listing and health endpoints never
\* insert into the registry, and the non-upgrade and listing/health requests
\* never call the fingerprint API.
C17_FetchBeforeForward ==
    [][/\ \A i \in 1..Len(requests') :
            LET r == requests'[i]
            IN  /\ (r.upgrade /\ r.nextCalls > NextCallsOf(requests, i)) =>
                      /\ i <= Len(requests) /\ requests[i].state = "fetching"
                      /\ r.state = "done" /\ r.outcome # "none"
                      /\ r.outcome = "data" =>
                            /\ r.gologinFingerprint # NoFingerprint
                            /\ r.gologinFingerprint.profile_id
                                  \in DOMAIN activeFingerprints'
                            /\ activeFingerprints'[r.gologinFingerprint.profile_id]
                                  = r.gologinFingerprint
                /\ ~r.upgrade => r.apiCalls = 0
       /\ \A i \in 1..Len(endpointCalls') :
            endpointCalls'[i].route \in {"active", "health"}
                => endpointCalls'[i].apiCalls = 0
       /\ activeFingerprints' # activeFingerprints =>
            \E i \in 1..Len(requests) :
                /\ requests[i].upgrade /\ requests[i].state = "fetching"
                /\ requests'[i].state = "done" /\ requests'[i].outcome = "data"
       /\ gwApiCalls' # gwApiCalls =>
            \/ /\ Len(requests') = Len(requests) + 1
               /\ requests'[Len(requests')].upgrade
            \/ /\ Len(endpointCalls') = Len(endpointCalls) + 1
               /\ endpointCalls'[Len(endpointCalls')].route = "generate"
      ]_vars

\* an upgrade was forwarded with its fingerprint attached and registered; a
\* call of the on-demand endpoint got a fingerprint and the registry still
\* holds the one session
C17_Witness ==
    /\ Len(requests) = 1 /\ requests[1].upgrade
    /\ requests[1].outcome = "data" /\ requests[1].nextCalls = 1
    /\ DOMAIN activeFingerprints
          = { requests[1].gologinFingerprint.profile_id }
    /\ Len(endpointCalls) = 1 /\ endpointCalls[1].route = "generate"
    /\ endpointCalls[1].status = 200
    /\ gwApiCalls = 2

\* C18 as stated: the gateway's fingerprint acquisition, during upgrade
\* interception and for GET /gologin/generate, retries a failed remote call,
\* up to 3 attempts in total, before the acquisition is reported as failed.
C18_GatewayRetries ==
    /\ \A i \in 1..Len(requests) :
          (requests[i].state = "done"
              /\ requests[i].outcome \in {"reject", "empty"})
            => requests[i].apiCalls = maxRetries + 1
    /\ \A i \in 1..Len(endpointCalls) :
          (endpointCalls[i].route = "generate"
              /\ endpointCalls[i].state = "done"
              /\ endpointCalls[i].status = 500)
            => endpointCalls[i].apiCalls = maxRetries + 1

\* C19 as stated: the sweep continues past individual directory errors: if
\* inspecting or removing one profile directory fails, the sweep still
\* removes every other directory older than the cutoff (so at most the one
\* it failed on is left), and the launch cycle then proceeds to the
\* fingerprint fetch.
C19_SweepContinues ==
    /\ sweepError # "none" => SweepDone
    /\ (SweepDone /\ sweepError = "entry") =>
          Cardinality({ n \in DOMAIN diskAtStart \cap DOMAIN disk :
                          diskAtStart[n] < cutoffTime }) <= 1

\* C20 as stated: for every descriptor, the builder appends a memory-sizing
\* flag --max-old-space-size=N where N is the descriptor's device-memory
\* hint multiplied by 1024, using 8 (N = 8192) when the hint is absent.
C20_MemoryFlagAlways ==
    LET nav == bFingerprint.navigator
        n == (IF nav.deviceMemory # 0 THEN nav.deviceMemory ELSE 8) * 1024
    IN  bDone =>
            Count(bResult, <<"--max-old-space-size", "=">> \o NumText(n)) = 1

\* the names of the fingerprint-derived flags, in the order C21 gives
DerivedFlagNames ==
    << <<"--user-data-dir">>, <<"--user-agent">>, <<"--window-size">>,
       <<"--lang">>, <<"--accept-lang">>,
       <<"--enable-font-subpixel-positioning">>, <<"--max-old-space-size">>,
       <<"--disable-canvas-aa">>, <<"--disable-2d-canvas-clip-aa">>,
       <<"--disable-webgl">>, <<"--disable-webgl", "2">> >>

\* whether the condition of the derived flag of this name holds
DerivedFlagDue(name, fp, path) ==
    LET nav == fp.navigator
    IN  CASE name = <<"--user-data-dir">> -> path # NoPath
          [] name = <<"--user-agent">> -> nav.userAgent # <<>>
          [] name = <<"--window-size">> -> nav.resolution # <<>>
          [] name \in { <<"--lang">>, <<"--accept-lang">> }
                -> nav.language # <<>>
          [] name = <<"--enable-font-subpixel-positioning">>
                -> Includes(nav.platform, "Mac")
          [] name = <<"--max-old-space-size">> -> nav.hardwareConcurrency # 0
          [] name \in CanvasFlags -> fp.canvasMode = <<"off">>
          [] OTHER -> fp.webGLMode = <<"off">>

\* the flag names of a list of arguments
FlagNames(args) == [ i \in 1..Len(args) |-> ArgKey(args[i]) ]

\* C21: the result is the caller-supplied arguments unchanged and in their
\* original order, followed by the fingerprint-derived flags in the fixed
\* order user-data-dir, user-agent, window-size, lang, accept-lang, platform
\* flag, memory-sizing, canvas flags, WebGL flags (each only when its
\* condition holds), followed by the baseline flags that were not
\* suppressed, in their fixed baseline order; the caller's own list is not
\* modified.
C21_ResultOrder ==
    [][(~bDone /\ bDone') =>
          /\ bOriginalArgs' = bOriginalArgs
          /\ \E k \in 0..Len(bResult') :
                LET n == Len(bOriginalArgs)
                    front == SubSeq(bResult', 1, n)
                    derived == SubSeq(bResult', n + 1, n + k)
                    baseline == SubSeq(bResult', n + k + 1, Len(bResult'))
                    Due(name) == DerivedFlagDue(name, bFingerprint, bProfilePath)
                    Kept(b) == ~\E i \in 1..(n + k) :
                                   StartsWith(bResult'[i], ArgKey(b))
                IN  /\ n + k <= Len(bResult')
                    /\ front = bOriginalArgs
                    /\ FlagNames(derived) = SelectSeq(DerivedFlagNames, Due)
                    /\ baseline = SelectSeq(essentialArgs, Kept)
      ]_vars

\* a caller argument, then all eleven derived flags of a Mac descriptor with
\* a profile, then the ten baseline flags the caller's port flag leaves
C21_Witness ==
    /\ bDone
    /\ bOriginalArgs = << <<"--remote-debugging-port", "=", "9222">> >>
    /\ Len(bResult) = 1 + 11 + 10
    /\ bResult[1] = bOriginalArgs[1]
    /\ ArgKey(bResult[2]) = <<"--user-data-dir">>
    /\ bResult[12] = <<"--disable-webgl", "2">>
    /\ bResult[13] = <<"--no-sandbox">>
    /\ bResult[22] = <<"--disable-renderer-backgrounding">>

\* the backend processes that have been started and have not closed
LiveBackends == { p \in 1..Len(procs) : procs[p].state # "closed" }

\* the restart timers that are set and have not fired
PendingRestarts == { r \in 1..Len(restarts) : ~restarts[r].fired }

\* C22: at every moment at most one supervised backend process is live and
\* at most one restart is pending: a new process is started only after the
\* previous one has closed with a non-zero code and the restart delay has
\* elapsed, over any sequence of exits, spawn errors and restarts.
C22_SingleBackend ==
    /\ Cardinality(LiveBackends) + Cardinality(PendingRestarts) <= 1
    /\ LiveBackends \subseteq { browserlessProcess }
    /\ \A p \in 2..Len(procs) :
          /\ procs[p - 1].state = "closed"
          /\ procs[p - 1].code # 0
          /\ procs[p].startedAt >= procs[p - 1].closedAt + restartDelayMs

\* the first backend process failed to spawn and closed; after the delay a
\* second one was started, which is the only live one, with no restart
\* pending
C22_Witness ==
    /\ Len(procs) = 2
    /\ procs[1].state = "closed" /\ procs[1].code = SpawnFailCode
    /\ procs[1].errorLogged
    /\ LiveBackends = {2} /\ procs[2].state = "running"
    /\ PendingRestarts = {}

\* C23 as stated: with several launcher instances running concurrently
\* against the shared profile root, the pre-launch sweep of one instance
\* never removes the profile directory of a session whose browser process is
\* still running in another instance; a live session's profile directory
\* exists from its creation until that session's own browser exit.
C23_LiveProfileKept ==
    \A l \in Launchers :
        (fleet[l].child = "running" /\ fleet[l].profilePath # NoPath)
            => fleet[l].sessionId \in DOMAIN fleetDisk
=============================================================================
